---- MODULE Spec2Model ----
(***************************************************************************)
(* Model of the rental-marketplace backend (src/backend/server.py): the    *)
(* MongoDB collections users, properties, applications, bookings and       *)
(* payments, and the request handlers that read and write them.            *)
(*                                                                         *)
(* A collection is a sequence of documents in insertion order; find_one    *)
(* and update_one act on the first document that matches.  Identifiers     *)
(* are uuid4 values, modelled as <<collection, serial>> pairs, so that     *)
(* identifiers of different collections never coincide.  Money is kept in  *)
(* whole currency units; the rents used are multiples of 5, for which 40%  *)
(* is a whole number, so the float product is modelled exactly (the float  *)
(* rounding error is far below the 0.01 tolerance of the specification).   *)
(* Document fields that no handler reads (title, message, move_in_date,    *)
(* updated_at, ...) are left out.                                          *)
(***************************************************************************)
EXTENDS Integers, Sequences, FiniteSets, TLC

VARIABLES
    users,          \* db.users
    properties,     \* db.properties
    applications,   \* db.applications
    bookings,       \* db.bookings
    payments,       \* db.payments
    now,            \* the wall clock, in whole seconds
    requests,       \* create_application coroutines suspended at an await
    response,       \* the reply to the last request served
    notifier        \* the NotificationService: its configuration and what it sent

vars ==
    <<users, properties, applications, bookings, payments, now, requests, response,
      notifier>>

db == <<users, properties, applications, bookings, payments>>

----------------------------------------------------------------------------
(* Bounds of the model *)

MaxUsers == 3
MaxProperties == 1
MaxApplications == 2
MaxBookings == 1
MaxPayments == 2
MaxTime == 1
MaxRequests == 2
MaxHistory == 22
MaxDelivered == 2

----------------------------------------------------------------------------
(* Values *)

\* Optional[T]: None, or one value.
None == {}
Some(v) == {v}
TheValue(o) == CHOOSE v \in o : TRUE

\* str(uuid.uuid4()): a fresh identifier, never shared between collections.
Uuid(kind, n) == <<kind, n>>

UserRole == [OWNER |-> "owner", TENANT |-> "tenant", ADMIN |-> "admin"]

PropertyStatus ==
    [DRAFT |-> "draft", ACTIVE |-> "active", RENTED |-> "rented", INACTIVE |-> "inactive"]

ApplicationStatus ==
    [PENDING |-> "pending", UNDER_REVIEW |-> "under_review",
     KYC_REQUIRED |-> "kyc_required", APPROVED |-> "approved",
     REJECTED |-> "rejected", CANCELLED |-> "cancelled"]

\* commission_rate = 40.0
CommissionRate == 40

----------------------------------------------------------------------------
(* Inputs the requests are drawn from *)

RegisterInputs ==
    { [email |-> "owner@x",  password |-> "secret1", role |-> "owner"],
      [email |-> "tenant@x", password |-> "secret",  role |-> "tenant"],
      [email |-> "tenant@x", password |-> "12345",   role |-> "tenant"],
      [email |-> "new@x",    password |-> "12345",   role |-> "tenant"] }

\* A registration with a role outside UserRole: role is a free string.
GuestInputs ==
    { [email |-> "guest@x", password |-> "secret1", role |-> "guest"] }

LoginInputs ==
    [email : {"owner@x", "tenant@x", "nobody@x"}, password : {"secret1", "secret"}]

Prices == {7000}
Deposits == {14000}

\* The body of POST /properties: the two amounts; the other fields are fixed.
PropertyInputs == [price : Prices, deposit : Deposits]

\* Amounts PropertyCreate accepts as it accepts any float.
FreeOrNegativeInputs == { [price |-> 0, deposit |-> -1] }

\* A booking's proposed_rent: the key missing, null, or a value.
RentInputs == {"missing", "null", "value"}
ProposedRent == 8500

\* The query parameters of GET /properties; NoQuery is the request without
\* parameters (skip 0, limit 20).
DefaultLimit == 20
NoQuery ==
    [city |-> None, district |-> None, property_type |-> None,
     min_price |-> None, max_price |-> None, rooms |-> None,
     furnished |-> None, skip |-> 0, limit |-> DefaultLimit]
ListInputs ==
    { NoQuery,
      [NoQuery EXCEPT !.city = Some("Istanbul")],
      [NoQuery EXCEPT !.city = Some("")],
      [NoQuery EXCEPT !.district = Some("Besiktas")],
      [NoQuery EXCEPT !.property_type = Some("apartment"), !.rooms = Some("2+1")],
      [NoQuery EXCEPT !.district = Some(""), !.property_type = Some(""), !.rooms = Some("")],
      [NoQuery EXCEPT !.min_price = Some(5000), !.max_price = Some(10000)],
      [NoQuery EXCEPT !.min_price = Some(7000), !.max_price = Some(7000)],
      [NoQuery EXCEPT !.min_price = Some(0)],
      [NoQuery EXCEPT !.max_price = Some(0)],
      [NoQuery EXCEPT !.furnished = Some(FALSE)],
      [NoQuery EXCEPT !.skip = 1],
      [NoQuery EXCEPT !.limit = 0] }

StatusInputs == {"draft", "active", "rented", "inactive", "sold"}

CompletionStatusInputs == {"success", "failed", "declined"}

KycScores == {74, 75}

PropertyIdInputs == {Uuid("property", n) : n \in 1..(MaxProperties + 1)}
ApplicationIdInputs == {Uuid("application", n) : n \in 1..(MaxApplications + 1)}
BookingIdInputs == {Uuid("booking", n) : n \in 1..(MaxBookings + 1)}

----------------------------------------------------------------------------
(* The database driver *)

Min(S) == CHOOSE i \in S : \A j \in S : i <= j

\* A filter document {"field": value, ...}: every field named equals its value.
Matches(doc, filter) == \A k \in DOMAIN filter : doc[k] = filter[k]

\* find_one: the position of the first matching document, 0 for None.
FindOne(coll, filter) ==
    LET S == {i \in 1..Len(coll) : Matches(coll[i], filter)}
    IN  IF S = {} THEN 0 ELSE Min(S)

\* update_one with {"$set": set}: the fields of set overwrite those of the
\* first matching document; nothing happens without a match.
UpdateOne(coll, filter, set) ==
    LET i == FindOne(coll, filter)
    IN  IF i = 0 THEN coll ELSE [coll EXCEPT ![i] = set @@ coll[i]]

InsertOne(coll, doc) == Append(coll, doc)

\* dict.get(key, default) on a document: the stored value when the key is
\* present (a stored null included), the default only when the key is missing.
DictGet(doc, key, default) ==
    IF key \in DOMAIN doc THEN doc[key] ELSE default

\* What the client of operation op receives: the HTTP status code and the
\* detail or message of the body.  logged is what logger.error wrote (the
\* exception a handler swallowed), body the payload of a successful reply.
Reply(op, code, detail) ==
    [op |-> op, code |-> code, detail |-> detail, logged |-> "", body |-> <<>>]

\* A handler whose body is wrapped in try: ... except Exception: every
\* exception raised in the body, an HTTPException included, is caught, logged
\* and replaced by HTTPException(status_code=500, detail=failed).  raised is
\* the reply the exception would have produced had it reached the framework.
ExceptException(raised, failed) ==
    [raised EXCEPT !.code = 500, !.detail = failed, !.logged = raised.detail]

Idle == [pc |-> "idle"]

\* NotificationService.__init__: the configuration read from the environment,
\* and, for the model, the messages handed over so far (to the SMTP server,
\* to Twilio, or to the log in mock mode).
NotificationService(smtp_password, sms_enabled, twilio_sid, twilio_token) ==
    [smtp_password |-> smtp_password, sms_enabled |-> sms_enabled,
     twilio_sid |-> twilio_sid, twilio_token |-> twilio_token,
     delivered |-> <<>>]

\* The service built with no variable set: os.environ.get's defaults.
DefaultService == NotificationService("", FALSE, "", "")

----------------------------------------------------------------------------
Init ==
    /\ users = <<>>
    /\ properties = <<>>
    /\ applications = <<>>
    /\ bookings = <<>>
    /\ payments = <<>>
    /\ now = 0
    /\ requests = [i \in 1..MaxRequests |-> Idle]
    /\ response = Reply("init", 200, "")
    /\ notifier = DefaultService

\* datetime.now(timezone.utc) advances between requests.
Tick ==
    /\ now < MaxTime
    /\ now' = now + 1
    /\ response' = Reply("tick", 200, "")
    /\ UNCHANGED <<db, requests, notifier>>

----------------------------------------------------------------------------
(* Identity *)

MinPasswordLength == 6

\* pwd_context.hash / pwd_context.verify: the stored value is not the password.
get_password_hash(password) == <<"bcrypt", password>>
verify_password(plain_password, hashed_password) ==
    hashed_password = get_password_hash(plain_password)

NewUser(user_data) ==
    [id |-> Uuid("user", Len(users) + 1),
     email |-> user_data.email,
     role |-> user_data.role,
     is_active |-> TRUE,
     password_hash |-> get_password_hash(user_data.password)]

\* A filter on a field no email is stored in.
RoleFilter(data) == [role |-> data.email]

\* {"email": user_data.email}
EmailFilter(data) == [email |-> data.email]

\* A check that refuses only the empty password.
PasswordEmpty(password) == Len(password) < 1

\* len(user_data.password) < 6
PasswordTooShort(password) == Len(password) < MinPasswordLength

register(user_data) ==
    LET existing_user == FindOne(users, EmailFilter(user_data))
    IN  /\ IF existing_user # 0
              THEN /\ response' = Reply("register", 400, "Email already registered")
                   /\ UNCHANGED users
              ELSE IF PasswordTooShort(user_data.password)
              THEN /\ response' = Reply("register", 400, "Password must be at least 6 characters")
                   /\ UNCHANGED users
              ELSE /\ Len(users) < MaxUsers
                   /\ users' = InsertOne(users, NewUser(user_data))
                   /\ response' = Reply("register", 200, "")
        /\ UNCHANGED <<properties, applications, bookings, payments, now, requests, notifier>>

ACCESS_TOKEN_EXPIRE_MINUTES == 30
REFRESH_TOKEN_EXPIRE_DAYS == 7

\* timedelta(days=n) on the clock's scale of minutes.
Days(n) == n * 24 * 60

\* jwt.encode of the data with its expiry; the signature is not modelled.
create_token(data, expires_delta) ==
    LET expire == IF expires_delta # 0 THEN now + expires_delta ELSE now + 15
    IN  <<"jwt", [exp |-> expire] @@ data>>

\* Access-token data that carries the default role.
AccessDataDefaultRole(user) ==
    [sub |-> user.id, email |-> user.email, role |-> UserRole.TENANT]

\* data={"sub": user['id'], "email": user['email'], "role": user['role']}
AccessData(user) == [sub |-> user.id, email |-> user.email, role |-> user.role]

\* data={"sub": user['id'], "type": "refresh"}
RefreshData(user) == [sub |-> user.id, type |-> "refresh"]

TokenPair(user) ==
    [access_token |-> create_token(AccessData(user), ACCESS_TOKEN_EXPIRE_MINUTES),
     refresh_token |-> create_token(RefreshData(user), Days(REFRESH_TOKEN_EXPIRE_DAYS)),
     token_type |-> "bearer"]

login(login_data) ==
    LET user == FindOne(users, EmailFilter(login_data))
    IN  /\ IF user = 0
              THEN response' = Reply("login", 400, "Incorrect email or password")
              ELSE IF ~verify_password(login_data.password, users[user].password_hash)
              THEN response' = Reply("login", 400, "Incorrect email or password")
              ELSE IF ~users[user].is_active
              THEN response' = Reply("login", 400, "Inactive user")
              ELSE response' = [Reply("login", 200, "") EXCEPT !.body = TokenPair(users[user])]
        /\ UNCHANGED <<db, now, requests, notifier>>

----------------------------------------------------------------------------
(* Property catalog *)

\* The property stored as already active.
NewPropertyActive(owner_id, property_data) ==
    [id |-> Uuid("property", Len(properties) + 1),
     owner_id |-> owner_id,
     property_type |-> "apartment",
     district |-> "Kadikoy",
     city |-> "Istanbul",
     price |-> property_data.price,
     deposit |-> property_data.deposit,
     rooms |-> "2+1",
     furnished |-> TRUE,
     status |-> PropertyStatus.ACTIVE]

NewProperty(owner_id, property_data) ==
    [id |-> Uuid("property", Len(properties) + 1),
     owner_id |-> owner_id,
     property_type |-> "apartment",
     district |-> "Kadikoy",
     city |-> "Istanbul",
     price |-> property_data.price,
     deposit |-> property_data.deposit,
     rooms |-> "2+1",
     furnished |-> TRUE,
     status |-> PropertyStatus.DRAFT]

\* c: the position in users of the user the bearer token resolves to.
create_property(c, property_data) ==
    LET current_user == users[c]
    IN  /\ IF current_user.role # UserRole.OWNER
              THEN /\ response' = Reply("create_property", 403, "Only owners can create properties")
                   /\ UNCHANGED properties
              ELSE /\ Len(properties) < MaxProperties
                   /\ properties' = InsertOne(properties, NewProperty(current_user.id, property_data))
                   /\ response' = Reply("create_property", 200, "")
        /\ UNCHANGED <<users, applications, bookings, payments, now, requests, notifier>>

\* A status list that also admits "sold".
valid_statuses_and_sold ==
    {PropertyStatus.DRAFT, PropertyStatus.ACTIVE, PropertyStatus.RENTED,
     PropertyStatus.INACTIVE, "sold"}

valid_statuses ==
    {PropertyStatus.DRAFT, PropertyStatus.ACTIVE, PropertyStatus.RENTED, PropertyStatus.INACTIVE}

\* An update that parks the property as inactive whatever status was asked for.
SetPropertyInactive(status) == [status |-> PropertyStatus.INACTIVE]

\* {"$set": {"status": status, ...}}
SetPropertyStatus(status) == [status |-> status]

update_property_status(c, property_id, status) ==
    LET current_user == users[c]
        p == FindOne(properties, [id |-> property_id])
    IN  /\ IF p = 0
              THEN /\ response' = Reply("update_property_status", 404, "Property not found")
                   /\ UNCHANGED properties
              ELSE IF properties[p].owner_id # current_user.id
              THEN /\ response' = Reply("update_property_status", 403, "Not authorized")
                   /\ UNCHANGED properties
              ELSE IF status \notin valid_statuses
              THEN /\ response' = Reply("update_property_status", 400, "Invalid status")
                   /\ UNCHANGED properties
              ELSE /\ properties' = UpdateOne(properties, [id |-> property_id],
                                               SetPropertyStatus(status))
                   /\ response' = Reply("update_property_status", 200, "")
        /\ UNCHANGED <<users, applications, bookings, payments, now, requests, notifier>>

\* Python truthiness of an optional string: None and "" are both false.
Truthy(o) == o # None /\ TheValue(o) # ""

\* The filter that matches every document.
EmptyFilter == [k \in {} |-> None]

\* One key of a filter document, present only when the condition holds.
FilterKey(present, key, value) ==
    IF present THEN [k \in {key} |-> value] ELSE EmptyFilter

\* A listing that does not look at the status.
AnyStatusFilter == EmptyFilter

\* filter_dict = {"status": PropertyStatus.ACTIVE}
ActiveFilter == [status |-> PropertyStatus.ACTIVE]

\* The equality part of filter_dict.
filter_dict(q) ==
    ActiveFilter
      @@ FilterKey(Truthy(q.city), "city", TheValue(q.city))
      @@ FilterKey(Truthy(q.district), "district", TheValue(q.district))
      @@ FilterKey(Truthy(q.property_type), "property_type", TheValue(q.property_type))
      @@ FilterKey(Truthy(q.rooms), "rooms", TheValue(q.rooms))
      @@ FilterKey(q.furnished # None, "furnished", TheValue(q.furnished))

\* A price range that leaves out its two bounds.
PriceStrictlyInRange(doc, q) ==
    /\ q.min_price # None => doc.price > TheValue(q.min_price)
    /\ q.max_price # None => doc.price < TheValue(q.max_price)

\* filter_dict["price"]: {"$gte": min_price} and {"$lte": max_price}, each only
\* when the parameter is not None.
PriceInRange(doc, q) ==
    /\ q.min_price # None => doc.price >= TheValue(q.min_price)
    /\ q.max_price # None => doc.price <= TheValue(q.max_price)

\* cursor.skip(n)
Skip(docs, n) == SubSeq(docs, n + 1, Len(docs))

\* cursor.limit(n); a limit of 0 is no limit.
Limit(docs, n) == IF n = 0 \/ n >= Len(docs) THEN docs ELSE SubSeq(docs, 1, n)

\* db.properties.find(filter_dict).skip(skip).limit(limit)
ListedProperties(q) ==
    LET Selected(doc) == Matches(doc, filter_dict(q)) /\ PriceInRange(doc, q)
    IN  Limit(Skip(SelectSeq(properties, Selected), q.skip), q.limit)

list_properties(q) ==
    /\ response' = [Reply("list_properties", 200, "") EXCEPT !.body = ListedProperties(q)]
    /\ UNCHANGED <<db, now, requests, notifier>>

----------------------------------------------------------------------------
(* Applications *)

\* The application stored as already approved.
NewApplicationApproved(property_id, tenant_id, owner_id) ==
    [id |-> Uuid("application", Len(applications) + 1),
     property_id |-> property_id,
     tenant_id |-> tenant_id,
     owner_id |-> owner_id,
     status |-> ApplicationStatus.APPROVED,
     kyc_score |-> None]

NewApplication(property_id, tenant_id, owner_id) ==
    [id |-> Uuid("application", Len(applications) + 1),
     property_id |-> property_id,
     tenant_id |-> tenant_id,
     owner_id |-> owner_id,
     status |-> ApplicationStatus.PENDING,
     kyc_score |-> None]

\* "Check if user already applied": any application of the pair, whatever
\* its status.
ExistingApplication(property_id, tenant_id) ==
    FindOne(applications,
            [property_id |-> property_id, tenant_id |-> tenant_id])

\* The handler run from its first line to its return with no other request
\* in between.
\* An application that records the property's id where its owner belongs.
PropertyAsOwner(property_doc) == property_doc.id

\* app_dict['owner_id'] = property_doc['owner_id']
OwnerOf(property_doc) == property_doc.owner_id

create_application(c, property_id) ==
    LET current_user == users[c]
        p == FindOne(properties, [id |-> property_id])
    IN  /\ IF current_user.role # UserRole.TENANT
              THEN /\ response' = Reply("create_application", 403, "Only tenants can apply")
                   /\ UNCHANGED applications
              ELSE IF p = 0
              THEN /\ response' = Reply("create_application", 404, "Property not found")
                   /\ UNCHANGED applications
              ELSE IF properties[p].status # PropertyStatus.ACTIVE
              THEN /\ response' = Reply("create_application", 400, "Property is not available for rent")
                   /\ UNCHANGED applications
              ELSE IF ExistingApplication(property_id, current_user.id) # 0
              THEN /\ response' = Reply("create_application", 400, "You have already applied for this property")
                   /\ UNCHANGED applications
              ELSE /\ Len(applications) < MaxApplications
                   /\ applications' = InsertOne(applications,
                          NewApplication(property_id, current_user.id, OwnerOf(properties[p])))
                   /\ response' = Reply("create_application", 200, "")
        /\ UNCHANGED <<users, properties, bookings, payments, now, requests, notifier>>

\* db.applications.find(filter).to_list(length=None)
FindApplications(filter) == SelectSeq(applications, LAMBDA doc : Matches(doc, filter))

\* The filter get_applications chooses by the caller's role.
ApplicationsFilter(current_user) ==
    IF current_user.role = UserRole.TENANT
    THEN [tenant_id |-> current_user.id]
    ELSE IF current_user.role = UserRole.OWNER
    THEN [owner_id |-> current_user.id]
    ELSE EmptyFilter

get_applications(c) ==
    /\ response' = [Reply("get_applications", 200, "")
                       EXCEPT !.body = FindApplications(ApplicationsFilter(users[c]))]
    /\ UNCHANGED <<db, now, requests, notifier>>

KycApproveThreshold == 75

\* Approval only above the threshold.
KycStatusAbove(score) ==
    IF score > KycApproveThreshold
    THEN ApplicationStatus.APPROVED ELSE ApplicationStatus.REJECTED

KycStatus(score) ==
    IF score >= KycApproveThreshold
    THEN ApplicationStatus.APPROVED ELSE ApplicationStatus.REJECTED

\* PUT /applications/{id}/kyc
run_kyc(c, application_id, score) ==
    LET current_user == users[c]
        a == FindOne(applications, [id |-> application_id])
    IN  /\ IF a = 0
              THEN /\ response' = Reply("run_kyc", 404, "Application not found")
                   /\ UNCHANGED applications
              ELSE IF applications[a].tenant_id # current_user.id
              THEN /\ response' = Reply("run_kyc", 403, "Not authorized")
                   /\ UNCHANGED applications
              ELSE /\ applications' = [applications EXCEPT
                          ![a].kyc_score = Some(score),
                          ![a].status = KycStatus(score)]
                   /\ response' = Reply("run_kyc", 200, "")
        /\ UNCHANGED <<users, properties, bookings, payments, now, requests, notifier>>

----------------------------------------------------------------------------
(* Bookings *)

\* The booking document made for an application.  application_id is not a
\* field of the stored document: it records which application the booking was
\* derived from, and no handler reads it.
NewBooking(application, rent) ==
    LET doc == [id |-> Uuid("booking", Len(bookings) + 1),
                property_id |-> application.property_id,
                tenant_id |-> application.tenant_id,
                status |-> "confirmed",
                application_id |-> application.id]
    IN  IF rent = "missing" THEN doc
        ELSE IF rent = "null" THEN doc @@ [proposed_rent |-> None]
        ELSE doc @@ [proposed_rent |-> Some(ProposedRent)]

\* No endpoint writes db.bookings: the booking of an application is inserted
\* into the collection directly, for the application's tenant and property,
\* whatever the application's status is at that moment.
create_booking(a, rent) ==
    /\ Len(bookings) < MaxBookings
    /\ bookings' = InsertOne(bookings, NewBooking(applications[a], rent))
    /\ response' = Reply("create_booking", 200, "")
    /\ UNCHANGED <<users, properties, applications, payments, now, requests, notifier>>

----------------------------------------------------------------------------
(* Payments *)

\* f"mock_token_{booking_id}_{int(datetime.now(timezone.utc).timestamp())}"
PaymentToken(booking_id, t) == <<"mock_token", booking_id, t>>

TokenInputs == {PaymentToken(b, t) : b \in BookingIdInputs, t \in 0..MaxTime}

\* The rate applied as a tenth instead of a hundredth.
CommissionAmountPerTen(total_amount) == (total_amount * CommissionRate) \div 10

\* total_amount * (commission_rate / 100)
CommissionAmount(total_amount) == (total_amount * CommissionRate) \div 100

OwnerAmount(total_amount, commission_amount) == total_amount - commission_amount

\* The row stores the rate as a whole-number fraction instead of the percentage.
NewPaymentRateAsFraction(booking_id, user_id, total_amount) ==
    [id |-> Uuid("payment", Len(payments) + 1),
     booking_id |-> booking_id,
     user_id |-> user_id,
     total_amount |-> total_amount,
     commission_amount |-> CommissionAmount(total_amount),
     owner_amount |-> OwnerAmount(total_amount, CommissionAmount(total_amount)),
     commission_rate |-> CommissionRate \div 100,
     status |-> "initialized",
     payment_token |-> PaymentToken(booking_id, now),
     created_at |-> now,
     completed_at |-> None]

NewPayment(booking_id, user_id, total_amount) ==
    [id |-> Uuid("payment", Len(payments) + 1),
     booking_id |-> booking_id,
     user_id |-> user_id,
     total_amount |-> total_amount,
     commission_amount |-> CommissionAmount(total_amount),
     owner_amount |-> OwnerAmount(total_amount, CommissionAmount(total_amount)),
     commission_rate |-> CommissionRate,
     status |-> "initialized",
     payment_token |-> PaymentToken(booking_id, now),
     created_at |-> now,
     completed_at |-> None]

\* booking.get('proposed_rent', property_doc['price']), before float() is applied
RentOrPrice(booking, property_doc) ==
    DictGet(booking, "proposed_rent", Some(property_doc.price))

InitializeBody(payment) ==
    [payment_token |-> payment.payment_token,
     total_amount |-> payment.total_amount,
     platform_commission |-> payment.commission_amount,
     owner_amount |-> payment.owner_amount]

\* A lookup that accepts any caller for a booking that exists.
BookingAbsent(b, current_user) == b = 0

\* not booking or booking['tenant_id'] != current_user.id
BookingNotFound(b, current_user) == b = 0 \/ bookings[b].tenant_id # current_user.id

initialize_payment(c, booking_id) ==
    LET current_user == users[c]
        b == FindOne(bookings, [id |-> booking_id])
        failed == "Payment initialization failed"
    IN  /\ IF BookingNotFound(b, current_user)
              THEN /\ response' = ExceptException(
                          Reply("initialize_payment", 404, "Booking not found"), failed)
                   /\ UNCHANGED payments
              ELSE LET p == FindOne(properties, [id |-> bookings[b].property_id])
                   IN  IF p = 0
                       THEN /\ response' = ExceptException(
                                   Reply("initialize_payment", 404, "Property not found"), failed)
                            /\ UNCHANGED payments
                       ELSE LET rent == RentOrPrice(bookings[b], properties[p])
                            IN  IF rent = None
                                \* float(None) raises TypeError
                                THEN /\ response' = ExceptException(
                                            Reply("initialize_payment", 500, "TypeError"), failed)
                                     /\ UNCHANGED payments
                                ELSE LET payment == NewPayment(booking_id, current_user.id, TheValue(rent))
                                     IN  /\ Len(payments) < MaxPayments
                                         /\ payments' = InsertOne(payments, payment)
                                         /\ response' = [Reply("initialize_payment", 200, "success")
                                                              EXCEPT !.body = InitializeBody(payment)]
        /\ UNCHANGED <<users, properties, applications, bookings, now, requests, notifier>>

\* A completion that marks the payment a duplicate when one is completed.
SetCompletedOrDuplicate ==
    IF \E i \in 1..Len(payments) : payments[i].status = "completed"
    THEN [status |-> "duplicate"]
    ELSE [status |-> "completed", completed_at |-> Some(now)]

SetCompleted == [status |-> "completed", completed_at |-> Some(now)]

\* The wrong status string written on failure.
SetCancelled == [status |-> "cancelled"]

SetFailed == [status |-> "failed"]

SetPaymentCompleted == [status |-> "payment_completed"]

\* db.applications.update_one({"id": payment["booking_id"]}, ...)
CompletedApplications(payment) ==
    UpdateOne(applications, [id |-> payment.booking_id], SetPaymentCompleted)

\* A completion that leaves the property as it was.
UntouchedProperties(payment) == properties

\* booking = db.bookings.find_one(...); if booking: db.properties.update_one(...)
CompletedProperties(payment) ==
    LET b == FindOne(bookings, [id |-> payment.booking_id])
    IN  IF b = 0 THEN properties
        ELSE UpdateOne(properties, [id |-> bookings[b].property_id],
                       SetPropertyStatus(PropertyStatus.RENTED))

complete_payment(payment_token, status) ==
    LET pay == FindOne(payments, [payment_token |-> payment_token])
        failed == "Payment completion failed"
    IN  IF pay = 0
        THEN /\ response' = ExceptException(
                    Reply("complete_payment", 404, "Payment not found"), failed)
             /\ UNCHANGED <<db, now, requests, notifier>>
        ELSE IF status = "success"
        THEN /\ payments' = UpdateOne(payments, [payment_token |-> payment_token],
                                      SetCompleted)
             /\ applications' = CompletedApplications(payments[pay])
             /\ properties' = CompletedProperties(payments[pay])
             /\ response' = Reply("complete_payment", 200, "Payment completed successfully")
             /\ UNCHANGED <<users, bookings, now, requests, notifier>>
        ELSE /\ payments' = UpdateOne(payments, [payment_token |-> payment_token],
                                      SetFailed)
             /\ response' = Reply("complete_payment", 200, "Payment failed")
             /\ UNCHANGED <<users, properties, applications, bookings, now, requests, notifier>>

\* A $match on the payments not yet completed.
MatchInitialized == [status |-> "initialized"]

\* {"$match": {"status": "completed"}}
MatchCompleted == [status |-> "completed"]

\* {"$sum": "$field"} over the documents of a group
RECURSIVE SumField(_, _)
SumField(docs, field) ==
    IF docs = <<>> THEN 0 ELSE Head(docs)[field] + SumField(Tail(docs), field)

\* db.payments.aggregate(pipeline).to_list(1): one group for all matching
\* documents, no group when none matches.
Aggregate(docs) ==
    LET matched == SelectSeq(docs, LAMBDA doc : Matches(doc, MatchCompleted))
    IN  IF matched = <<>> THEN <<>>
        ELSE << [total_payments |-> SumField(matched, "total_amount"),
                 total_commission |-> SumField(matched, "commission_amount"),
                 total_owner_payments |-> SumField(matched, "owner_amount"),
                 payment_count |-> Len(matched)] >>

CommissionStats(stats) ==
    IF stats # <<>>
    THEN [total_payments |-> stats[1].total_payments,
          total_commission_collected |-> stats[1].total_commission,
          total_owner_payments |-> stats[1].total_owner_payments,
          payment_count |-> stats[1].payment_count,
          commission_rate |-> "40%"]
    ELSE [total_payments |-> 0,
          total_commission_collected |-> 0,
          total_owner_payments |-> 0,
          payment_count |-> 0,
          commission_rate |-> "40%"]

\* Any authenticated caller; the role is not looked at.
get_commission_stats(c) ==
    /\ response' = [Reply("get_commission_stats", 200, "")
                       EXCEPT !.body = CommissionStats(Aggregate(payments))]
    /\ UNCHANGED <<db, now, requests, notifier>>

\* to_list(length=20)
HistoryLength == 20

\* sort("created_at", -1): documents of equal created_at keep their order.
RECURSIVE InsertNewestFirst(_, _)
InsertNewestFirst(doc, sorted) ==
    IF sorted = <<>> THEN <<doc>>
    ELSE IF Head(sorted).created_at >= doc.created_at
    THEN <<Head(sorted)>> \o InsertNewestFirst(doc, Tail(sorted))
    ELSE <<doc>> \o sorted

RECURSIVE SortNewestFirst(_)
SortNewestFirst(docs) ==
    IF docs = <<>> THEN <<>>
    ELSE InsertNewestFirst(docs[Len(docs)], SortNewestFirst(SubSeq(docs, 1, Len(docs) - 1)))

\* A cursor read to its end, whatever the length asked for.
to_list_all(docs, length) == docs

\* cursor.to_list(length=n): at most n documents
to_list(docs, length) == IF Len(docs) <= length THEN docs ELSE SubSeq(docs, 1, length)

\* db.payments.find({"user_id": current_user.id})
FindPayments(filter) == SelectSeq(payments, LAMBDA doc : Matches(doc, filter))

get_payments(c) ==
    LET current_user == users[c]
        found == FindPayments([user_id |-> current_user.id])
    IN  /\ response' = [Reply("get_payments", 200, "")
                           EXCEPT !.body = to_list(SortNewestFirst(found), HistoryLength)]
        /\ UNCHANGED <<db, now, requests, notifier>>

----------------------------------------------------------------------------
(* Notifications: NotificationService.send_email and send_sms *)

\* What a method call gave its caller: the value returned (body), or the
\* exception that left the method (detail), and what logger.error wrote.
Returned(op, value, logged) ==
    [op |-> op, code |-> 0, detail |-> "", logged |-> logged, body |-> value]
Propagated(op, kind) ==
    [op |-> op, code |-> 0, detail |-> kind, logged |-> "", body |-> None]

\* The exceptions the calls inside the two methods raise; each is a subclass
\* of Exception.
NoFault == [at |-> "", kind |-> ""]
EmailFaults ==
    { [at |-> "MIMEText",     kind |-> "UnicodeEncodeError"],
      [at |-> "SMTP",         kind |-> "OSError"],
      [at |-> "starttls",     kind |-> "SMTPException"],
      [at |-> "login",        kind |-> "SMTPAuthenticationError"],
      [at |-> "send_message", kind |-> "SMTPRecipientsRefused"] }
SmsFaults ==
    { [at |-> "import", kind |-> "ImportError"],
      [at |-> "create", kind |-> "TwilioRestException"] }

\* A handler that catches the SMTP errors only.
ExceptSMTPException(kind) ==
    kind \in {"SMTPException", "SMTPAuthenticationError", "SMTPRecipientsRefused"}

\* except Exception as e
ExceptAnyException(kind) ==
    kind \in {f.kind : f \in EmailFaults \cup SmsFaults}

\* The calls send_email makes inside its try, in order.
EmailCalls(service) ==
    IF service.smtp_password # ""
    THEN <<"MIMEText", "SMTP", "starttls", "login", "send_message">>
    ELSE <<"MIMEText">>

\* The calls send_sms makes inside its try, in order.
SmsCalls(service) ==
    IF service.sms_enabled /\ service.twilio_sid # "" /\ service.twilio_token # ""
    THEN <<"import", "create">>
    ELSE <<>>

Raises(fault, calls) == \E i \in 1..Len(calls) : calls[i] = fault.at

\* try: ... return True / except Exception: logger.error(...); return False
TryDeliver(op, fault, calls, message, failed) ==
    IF Raises(fault, calls)
    THEN /\ response' = IF ExceptAnyException(fault.kind)
                            THEN Returned(op, FALSE, failed)
                            ELSE Propagated(op, fault.kind)
         /\ UNCHANGED notifier
    ELSE /\ Len(notifier.delivered) < MaxDelivered
         /\ notifier' = [notifier EXCEPT !.delivered = Append(@, message)]
         /\ response' = Returned(op, TRUE, "")

\* fault: the exception the environment raises in one of the calls, if any.
send_email(to_email, subject, text_content, fault) ==
    LET via == IF notifier.smtp_password # "" THEN "smtp" ELSE "mock"
        msg == [channel |-> "email", via |-> via, to |-> to_email, subject |-> subject,
                parts |-> IF Truthy(text_content) THEN <<"plain", "html">> ELSE <<"html">>]
    IN  /\ TryDeliver("send_email", fault, EmailCalls(notifier), msg, "Email sending failed")
        /\ UNCHANGED <<db, now, requests>>

send_sms(to_phone, message, fault) ==
    LET via == IF SmsCalls(notifier) # <<>> THEN "twilio" ELSE "mock"
        msg == [channel |-> "sms", via |-> via, to |-> to_phone, body |-> message]
    IN  /\ TryDeliver("send_sms", fault, SmsCalls(notifier), msg, "SMS sending failed")
        /\ UNCHANGED <<db, now, requests>>

\* One service per configuration of the environment.
ServiceInputs ==
    { NotificationService(p, e, sid, tok) :
        p \in {"", "password"}, e \in BOOLEAN, sid \in {"", "sid"}, tok \in {"", "token"} }

TextInputs == {None, Some(""), Some("text")}

NotifyInit ==
    /\ users = <<>>
    /\ properties = <<>>
    /\ applications = <<>>
    /\ bookings = <<>>
    /\ payments = <<>>
    /\ now = 0
    /\ requests = [i \in 1..MaxRequests |-> Idle]
    /\ response = Reply("init", 200, "")
    /\ notifier \in ServiceInputs

NotifyNext ==
    \/ \E text_content \in TextInputs, fault \in EmailFaults \cup {NoFault} :
          send_email("tenant@x", "subject", text_content, fault)
    \/ \E fault \in SmsFaults \cup {NoFault} : send_sms("+905550000000", "message", fault)

NotifySpec == NotifyInit /\ [][NotifyNext]_vars

----------------------------------------------------------------------------
(* One request at a time *)

Callers == 1..Len(users)

Next ==
    \/ Tick
    \/ \E user_data \in RegisterInputs : register(user_data)
    \/ \E login_data \in LoginInputs : login(login_data)
    \/ \E c \in Callers, property_data \in PropertyInputs : create_property(c, property_data)
    \/ \E q \in ListInputs : list_properties(q)
    \/ \E c \in Callers, property_id \in PropertyIdInputs, status \in StatusInputs :
          update_property_status(c, property_id, status)
    \/ \E c \in Callers, property_id \in PropertyIdInputs : create_application(c, property_id)
    \/ \E c \in Callers : get_applications(c)
    \/ \E c \in Callers, application_id \in ApplicationIdInputs, score \in KycScores :
          run_kyc(c, application_id, score)
    \/ \E a \in 1..Len(applications), rent \in RentInputs : create_booking(a, rent)
    \/ \E c \in Callers, booking_id \in BookingIdInputs : initialize_payment(c, booking_id)
    \/ \E payment_token \in TokenInputs, status \in CompletionStatusInputs :
          complete_payment(payment_token, status)
    \/ \E c \in Callers : get_payments(c)
    \/ \E c \in Callers : get_commission_stats(c)

Spec == Init /\ [][Next]_vars

----------------------------------------------------------------------------
(* Requests in flight *)

\* create_application one await at a time.  A coroutine gives up control at
\* each await (get_current_user, find_one on properties, find_one on
\* applications, insert_one), and another request may run in between; what
\* lies between two awaits runs without interruption.  requests[i] holds the
\* local variables of coroutine i while it is suspended.

\* await get_current_user, then the role check
create_application_authenticate(i, c, property_id) ==
    /\ requests[i] = Idle
    /\ IF users[c].role # UserRole.TENANT
          THEN /\ response' = Reply("create_application", 403, "Only tenants can apply")
               /\ UNCHANGED requests
          ELSE /\ requests' = [requests EXCEPT ![i] =
                      [pc |-> "find_property", tenant_id |-> users[c].id,
                       property_id |-> property_id]]
               /\ UNCHANGED response
    /\ UNCHANGED <<db, now, notifier>>

\* await db.properties.find_one, then the checks on property_doc
create_application_find_property(i) ==
    LET r == requests[i]
        p == FindOne(properties, [id |-> r.property_id])
    IN  /\ r.pc = "find_property"
        /\ IF p = 0
              THEN /\ response' = Reply("create_application", 404, "Property not found")
                   /\ requests' = [requests EXCEPT ![i] = Idle]
              ELSE IF properties[p].status # PropertyStatus.ACTIVE
              THEN /\ response' = Reply("create_application", 400, "Property is not available for rent")
                   /\ requests' = [requests EXCEPT ![i] = Idle]
              ELSE /\ requests' = [requests EXCEPT ![i] =
                          [pc |-> "find_existing", tenant_id |-> r.tenant_id,
                           property_id |-> r.property_id,
                           owner_id |-> properties[p].owner_id]]
                   /\ UNCHANGED response
        /\ UNCHANGED <<db, now, notifier>>

\* await db.applications.find_one, then the check on existing_app
create_application_find_existing(i) ==
    LET r == requests[i]
    IN  /\ r.pc = "find_existing"
        /\ IF ExistingApplication(r.property_id, r.tenant_id) # 0
              THEN /\ response' = Reply("create_application", 400, "You have already applied for this property")
                   /\ requests' = [requests EXCEPT ![i] = Idle]
              ELSE /\ requests' = [requests EXCEPT ![i].pc = "insert"]
                   /\ UNCHANGED response
        /\ UNCHANGED <<db, now, notifier>>

\* await db.applications.insert_one, then the return
create_application_insert(i) ==
    LET r == requests[i]
    IN  /\ r.pc = "insert"
        /\ Len(applications) < MaxApplications
        /\ applications' = InsertOne(applications,
               NewApplication(r.property_id, r.tenant_id, r.owner_id))
        /\ response' = Reply("create_application", 200, "")
        /\ requests' = [requests EXCEPT ![i] = Idle]
        /\ UNCHANGED <<users, properties, bookings, payments, now, notifier>>

\* Applications created by concurrent requests, among the requests that
\* write what create_application reads.
ConcNext ==
    \/ \E user_data \in RegisterInputs : register(user_data)
    \/ \E c \in Callers, property_data \in PropertyInputs : create_property(c, property_data)
    \/ \E c \in Callers, property_id \in PropertyIdInputs, status \in StatusInputs :
          update_property_status(c, property_id, status)
    \/ \E c \in Callers, application_id \in ApplicationIdInputs, score \in KycScores :
          run_kyc(c, application_id, score)
    \/ \E i \in 1..MaxRequests, c \in Callers, property_id \in PropertyIdInputs :
          create_application_authenticate(i, c, property_id)
    \/ \E i \in 1..MaxRequests : create_application_find_property(i)
    \/ \E i \in 1..MaxRequests : create_application_find_existing(i)
    \/ \E i \in 1..MaxRequests : create_application_insert(i)

ConcSpec == Init /\ [][ConcNext]_vars

----------------------------------------------------------------------------
(* Users and properties as the request models admit them: a role outside
   UserRole, a price of 0, a negative deposit; no payments *)

AccessNext ==
    \/ \E user_data \in RegisterInputs \cup GuestInputs : register(user_data)
    \/ \E c \in Callers, property_data \in PropertyInputs \cup FreeOrNegativeInputs :
          create_property(c, property_data)
    \/ \E c \in Callers, property_id \in PropertyIdInputs, status \in StatusInputs :
          update_property_status(c, property_id, status)
    \/ \E c \in Callers, property_id \in PropertyIdInputs : create_application(c, property_id)
    \/ \E c \in Callers : get_applications(c)

AccessSpec == Init /\ [][AccessNext]_vars

----------------------------------------------------------------------------
(* A tenant with a long payment history: the state after an owner and a tenant
   registered, the owner's property was activated, the tenant applied, a
   booking was inserted and the tenant initialized n payments, one per tick *)

HistoryUsers ==
    << [id |-> Uuid("user", 1), email |-> "owner@x", role |-> UserRole.OWNER,
        is_active |-> TRUE, password_hash |-> get_password_hash("secret1")],
       [id |-> Uuid("user", 2), email |-> "tenant@x", role |-> UserRole.TENANT,
        is_active |-> TRUE, password_hash |-> get_password_hash("secret")] >>

HistoryProperties ==
    << [id |-> Uuid("property", 1), owner_id |-> Uuid("user", 1),
        property_type |-> "apartment", district |-> "Kadikoy", city |-> "Istanbul",
        price |-> 7000, deposit |-> 14000, rooms |-> "2+1", furnished |-> TRUE,
        status |-> PropertyStatus.ACTIVE] >>

HistoryApplications ==
    << [id |-> Uuid("application", 1), property_id |-> Uuid("property", 1),
        tenant_id |-> Uuid("user", 2), owner_id |-> Uuid("user", 1),
        status |-> ApplicationStatus.PENDING, kyc_score |-> None] >>

HistoryBookings ==
    << [id |-> Uuid("booking", 1), property_id |-> Uuid("property", 1),
        tenant_id |-> Uuid("user", 2), status |-> "confirmed",
        application_id |-> Uuid("application", 1),
        proposed_rent |-> Some(ProposedRent)] >>

\* The n-th payment of the history, initialized at tick n.
HistoryPayment(n) ==
    [id |-> Uuid("payment", n),
     booking_id |-> Uuid("booking", 1),
     user_id |-> Uuid("user", 2),
     total_amount |-> ProposedRent,
     commission_amount |-> CommissionAmount(ProposedRent),
     owner_amount |-> OwnerAmount(ProposedRent, CommissionAmount(ProposedRent)),
     commission_rate |-> CommissionRate,
     status |-> "initialized",
     payment_token |-> PaymentToken(Uuid("booking", 1), n),
     created_at |-> n,
     completed_at |-> None]

History(n) == [i \in 1..n |-> HistoryPayment(i)]

HistoryInit ==
    /\ users = HistoryUsers
    /\ properties = HistoryProperties
    /\ applications = HistoryApplications
    /\ bookings = HistoryBookings
    /\ \E n \in 0..MaxHistory : payments = History(n) /\ now = n
    /\ requests = [i \in 1..MaxRequests |-> Idle]
    /\ response = Reply("init", 200, "")
    /\ notifier = DefaultService

\* The tokens of the two oldest payments of a history.
HistoryTokenInputs == {PaymentToken(b, t) : b \in BookingIdInputs, t \in 1..2}

HistoryNext ==
    \/ \E c \in Callers, booking_id \in BookingIdInputs : initialize_payment(c, booking_id)
    \/ \E payment_token \in HistoryTokenInputs, status \in CompletionStatusInputs :
          complete_payment(payment_token, status)
    \/ \E c \in Callers : get_payments(c)

HistorySpec == HistoryInit /\ [][HistoryNext]_vars

----------------------------------------------------------------------------
(* Two payment completions in flight: complete_payment one await at a time.
   Each request slot serves one call; requests[i] holds the call's arguments
   and the documents it has read while it is suspended *)

Done(r) == [pc |-> "done", payment_token |-> r.payment_token, status |-> r.status]

\* await db.payments.find_one, then the checks on payment and status
complete_payment_find_payment(i, payment_token, status) ==
    LET pay == FindOne(payments, [payment_token |-> payment_token])
        call == [payment_token |-> payment_token, status |-> status]
    IN  /\ requests[i] = Idle
        /\ IF pay = 0
              THEN /\ response' = ExceptException(
                          Reply("complete_payment", 404, "Payment not found"),
                          "Payment completion failed")
                   /\ requests' = [requests EXCEPT ![i] = Done(call)]
              ELSE /\ requests' = [requests EXCEPT ![i] =
                          [pc |-> IF status = "success" THEN "update_payment"
                                                        ELSE "fail_payment",
                           payment_token |-> payment_token, status |-> status,
                           payment |-> payments[pay]]]
                   /\ UNCHANGED response
        /\ UNCHANGED <<db, now, notifier>>

\* await db.payments.update_one: status completed
complete_payment_update_payment(i) ==
    LET r == requests[i]
    IN  /\ r.pc = "update_payment"
        /\ payments' = UpdateOne(payments, [payment_token |-> r.payment_token], SetCompleted)
        /\ requests' = [requests EXCEPT ![i].pc = "update_application"]
        /\ UNCHANGED <<users, properties, applications, bookings, now, response, notifier>>

\* await db.applications.update_one
complete_payment_update_application(i) ==
    LET r == requests[i]
    IN  /\ r.pc = "update_application"
        /\ applications' = CompletedApplications(r.payment)
        /\ requests' = [requests EXCEPT ![i].pc = "find_booking"]
        /\ UNCHANGED <<users, properties, bookings, payments, now, response, notifier>>

\* await db.bookings.find_one, then if booking
complete_payment_find_booking(i) ==
    LET r == requests[i]
        b == FindOne(bookings, [id |-> r.payment.booking_id])
    IN  /\ r.pc = "find_booking"
        /\ IF b = 0
              THEN /\ response' = Reply("complete_payment", 200, "Payment completed successfully")
                   /\ requests' = [requests EXCEPT ![i] = Done(r)]
              ELSE /\ requests' = [requests EXCEPT ![i] =
                          [pc |-> "update_property", payment_token |-> r.payment_token,
                           status |-> r.status, payment |-> r.payment,
                           booking |-> bookings[b]]]
                   /\ UNCHANGED response
        /\ UNCHANGED <<db, now, notifier>>

\* await db.properties.update_one, then the return
complete_payment_update_property(i) ==
    LET r == requests[i]
    IN  /\ r.pc = "update_property"
        /\ properties' = UpdateOne(properties, [id |-> r.booking.property_id],
                                    SetPropertyStatus(PropertyStatus.RENTED))
        /\ response' = Reply("complete_payment", 200, "Payment completed successfully")
        /\ requests' = [requests EXCEPT ![i] = Done(r)]
        /\ UNCHANGED <<users, applications, bookings, payments, now, notifier>>

\* await db.payments.update_one: status failed, then the return
complete_payment_fail_payment(i) ==
    LET r == requests[i]
    IN  /\ r.pc = "fail_payment"
        /\ payments' = UpdateOne(payments, [payment_token |-> r.payment_token], SetFailed)
        /\ response' = Reply("complete_payment", 200, "Payment failed")
        /\ requests' = [requests EXCEPT ![i] = Done(r)]
        /\ UNCHANGED <<users, properties, applications, bookings, now, notifier>>

CompletionNext ==
    \/ \E i \in 1..MaxRequests, payment_token \in HistoryTokenInputs,
           status \in CompletionStatusInputs :
          complete_payment_find_payment(i, payment_token, status)
    \/ \E i \in 1..MaxRequests : complete_payment_update_payment(i)
    \/ \E i \in 1..MaxRequests : complete_payment_update_application(i)
    \/ \E i \in 1..MaxRequests : complete_payment_find_booking(i)
    \/ \E i \in 1..MaxRequests : complete_payment_update_property(i)
    \/ \E i \in 1..MaxRequests : complete_payment_fail_payment(i)

CompletionSpec == HistoryInit /\ [][CompletionNext]_vars

----------------------------------------------------------------------------
(* Registrations in flight: register one await at a time *)

\* await db.users.find_one, then the checks on existing_user and the password
register_find_user(i, user_data) ==
    /\ requests[i] = Idle
    /\ IF FindOne(users, EmailFilter(user_data)) # 0
          THEN /\ response' = Reply("register", 400, "Email already registered")
               /\ UNCHANGED requests
          ELSE IF PasswordTooShort(user_data.password)
          THEN /\ response' = Reply("register", 400, "Password must be at least 6 characters")
               /\ UNCHANGED requests
          ELSE /\ requests' = [requests EXCEPT ![i] =
                      [pc |-> "insert_user", user_data |-> user_data]]
               /\ UNCHANGED response
    /\ UNCHANGED <<db, now, notifier>>

\* await db.users.insert_one, then the return
register_insert_user(i) ==
    LET r == requests[i]
    IN  /\ r.pc = "insert_user"
        /\ Len(users) < MaxUsers
        /\ users' = InsertOne(users, NewUser(r.user_data))
        /\ response' = Reply("register", 200, "")
        /\ requests' = [requests EXCEPT ![i] = Idle]
        /\ UNCHANGED <<properties, applications, bookings, payments, now, notifier>>

RegisterNext ==
    \/ \E i \in 1..MaxRequests, user_data \in RegisterInputs \cup GuestInputs :
          register_find_user(i, user_data)
    \/ \E i \in 1..MaxRequests : register_insert_user(i)

RegisterSpec == Init /\ [][RegisterNext]_vars

----------------------------------------------------------------------------
(* Properties of the payment flow *)

PaymentsWithToken(token) == {i \in 1..Len(payments) : payments[i].payment_token = token}

BookingOf(payment) == FindOne(bookings, [id |-> payment.booking_id])

PropertyOf(booking) == FindOne(properties, [id |-> booking.property_id])

ApplicationOf(booking) == FindOne(applications, [id |-> booking.application_id])

\* C1: completePayment(token, "success") with the token of a Payment created
\* for booking B sets the status of the application B derives from to
\* payment_completed.
C1_SuccessCompletesApplication ==
    [][\A i \in 1..Len(payments) :
          complete_payment(payments[i].payment_token, "success")
          => LET b == BookingOf(payments[i])
             IN  /\ b # 0
                 /\ ApplicationOf(bookings[b]) # 0
                 /\ applications'[ApplicationOf(bookings[b])].status = "payment_completed"]_vars

\* C2: completePayment(token, "success") with the token of any Payment created
\* for a booking on property P sets that Payment's status to completed and P's
\* status to rented, whatever P's status was.
C2_SuccessCompletesPaymentAndRents ==
    [][\A i \in 1..Len(payments) :
          complete_payment(payments[i].payment_token, "success")
          => LET b == BookingOf(payments[i])
             IN  /\ payments'[i].status = "completed"
                 /\ b # 0
                 /\ PropertyOf(bookings[b]) # 0
                 /\ properties'[PropertyOf(bookings[b])].status = PropertyStatus.RENTED]_vars

\* C3: every Payment row has commission_amount = 40% of total_amount,
\* owner_amount = total_amount - commission_amount and commission_amount +
\* owner_amount = total_amount; a total of 8500 gives 3400 and 5100, in the row
\* and in the reply of initializePayment.
C3_CommissionSplit ==
    /\ \A i \in 1..Len(payments) :
          LET p == payments[i]
          IN  /\ p.commission_amount * 100 = p.total_amount * 40
              /\ p.owner_amount = p.total_amount - p.commission_amount
              /\ p.commission_amount + p.owner_amount = p.total_amount
              /\ p.total_amount = 8500
                    => p.commission_amount = 3400 /\ p.owner_amount = 5100
    /\ (response.op = "initialize_payment" /\ response.code = 200)
          => /\ response.body.platform_commission * 100 = response.body.total_amount * 40
             /\ response.body.owner_amount =
                    response.body.total_amount - response.body.platform_commission
             /\ response.body.total_amount = 8500
                   => /\ response.body.platform_commission = 3400
                      /\ response.body.owner_amount = 5100

\* initializePayment has just created a Payment of 8500.
C3_Witness ==
    /\ response.op = "initialize_payment" /\ response.code = 200
    /\ response.body.total_amount = 8500
    /\ \E i \in 1..Len(payments) : payments[i].total_amount = 8500

\* C4: completePayment with a token that matches no Payment fails with HTTP
\* 404, whatever the status argument, and changes no document.
C4_UnknownTokenIsNotFound ==
    [][\A token \in TokenInputs, status \in CompletionStatusInputs :
          (complete_payment(token, status) /\ PaymentsWithToken(token) = {})
          => response'.code = 404 /\ UNCHANGED db]_vars

\* C5: initializePayment fails with HTTP 404 and creates no Payment when the
\* booking does not exist, when the caller is not the booking's tenant, or
\* when the booking's property does not exist.
C5_InitializeNotFound ==
    [][\A c \in Callers, booking_id \in BookingIdInputs :
          LET b == FindOne(bookings, [id |-> booking_id])
          IN  (/\ initialize_payment(c, booking_id)
               /\ \/ b = 0
                  \/ bookings[b].tenant_id # users[c].id
                  \/ PropertyOf(bookings[b]) = 0)
              => response'.code = 404 /\ payments' = payments]_vars

\* C6: completePayment with an existing token and a status other than
\* "success" sets the status of the Payment the token resolves to (the first
\* one stored with it) to failed and changes nothing else: no other field of
\* it, no other Payment, no Application, no Property.
C6_FailureOnlyFailsThePayment ==
    [][response'.op = "complete_payment" =>
       \A token \in TokenInputs, status \in CompletionStatusInputs \ {"success"} :
          (complete_payment(token, status) /\ PaymentsWithToken(token) # {})
          => LET pay == Min(PaymentsWithToken(token))
             IN  /\ payments'[pay].status = "failed"
                 /\ payments' = [payments EXCEPT ![pay].status = "failed"]
                 /\ UNCHANGED <<users, properties, applications, bookings>>]_vars

\* A completion with a status other than "success" has failed one Payment
\* while a property is rented and an application approved.
C6_Witness ==
    /\ response.op = "complete_payment" /\ response.detail = "Payment failed"
    /\ \E i \in 1..Len(payments) : payments[i].status = "failed"
    /\ \E i \in 1..Len(payments) : payments[i].status # "failed"

\* C7: no two Payment rows have the same payment_token.
C7_TokensUnique ==
    \A i, j \in 1..Len(payments) :
        i # j => payments[i].payment_token # payments[j].payment_token

\* C8: initializePayment for the tenant's booking succeeds with total_amount
\* the booking's proposed_rent when it has one, and the property's price when
\* proposed_rent is missing or null.
C8_TotalIsRentOrPrice ==
    [][\A c \in Callers, booking_id \in BookingIdInputs :
          LET b == FindOne(bookings, [id |-> booking_id])
          IN  (/\ initialize_payment(c, booking_id)
               /\ b # 0
               /\ bookings[b].tenant_id = users[c].id
               /\ PropertyOf(bookings[b]) # 0)
              => LET booking == bookings[b]
                     has_rent == /\ "proposed_rent" \in DOMAIN booking
                                 /\ booking.proposed_rent # None
                     expected == IF has_rent THEN TheValue(booking.proposed_rent)
                                 ELSE properties[PropertyOf(booking)].price
                 IN  /\ response'.code = 200
                     /\ Len(payments') = Len(payments) + 1
                     /\ payments'[Len(payments')].total_amount = expected]_vars

----------------------------------------------------------------------------
(* Properties of applications *)

Terminated(application) ==
    application.status \in {ApplicationStatus.REJECTED, ApplicationStatus.CANCELLED}

ApplicationsOfPair(property_id, tenant_id) ==
    {i \in 1..Len(applications) :
        applications[i].property_id = property_id /\ applications[i].tenant_id = tenant_id}

\* C9: createApplication by a tenant for an active property fails as a
\* duplicate when an earlier application of the pair is in a non-terminal
\* state, and is accepted when the earlier applications of the pair are
\* rejected or cancelled.
C9_DuplicateUnlessTerminated ==
    [][\A c \in Callers, property_id \in PropertyIdInputs :
          LET p == FindOne(properties, [id |-> property_id])
              earlier == ApplicationsOfPair(property_id, users[c].id)
          IN  (/\ create_application(c, property_id)
               /\ users[c].role = UserRole.TENANT
               /\ p # 0
               /\ properties[p].status = PropertyStatus.ACTIVE
               /\ earlier # {})
              => IF \E i \in earlier : ~Terminated(applications[i])
                 THEN /\ response'.code = 400
                      /\ applications' = applications
                 ELSE /\ response'.code = 200
                      /\ Len(applications') = Len(applications) + 1]_vars

\* C10: at most one Application that is neither cancelled nor rejected exists
\* per (property_id, tenant_id) pair, also when createApplication requests
\* interleave between the existence check and the insert.
C10_OneLiveApplicationPerPair ==
    \A i, j \in 1..Len(applications) :
        (/\ i # j
         /\ applications[i].property_id = applications[j].property_id
         /\ applications[i].tenant_id = applications[j].tenant_id)
        => Terminated(applications[i]) \/ Terminated(applications[j])

\* C11: createApplication creates an Application only for a caller whose role
\* is tenant and a property that exists with status active; it fails with 403
\* for a non-tenant caller, 404 for an absent property and 400 (property not
\* available) for a property that is not active, leaving the Applications
\* unchanged in each failure.  A created Application has status pending.
C11_CreateApplicationGuards ==
    [][response'.op = "create_application" =>
       \A c \in Callers, property_id \in PropertyIdInputs :
          create_application(c, property_id)
          => LET p == FindOne(properties, [id |-> property_id])
                 tenant == users[c].role = UserRole.TENANT
             IN  /\ applications' # applications
                       => /\ tenant /\ p # 0
                          /\ properties[p].status = PropertyStatus.ACTIVE
                          /\ response'.code = 200
                          /\ Len(applications') = Len(applications) + 1
                          /\ SubSeq(applications', 1, Len(applications)) = applications
                          /\ LET new == applications'[Len(applications')]
                             IN  /\ new.status = "pending"
                                 /\ new.tenant_id = users[c].id
                                 /\ new.property_id = property_id
                 /\ ~tenant
                       => response'.code = 403 /\ applications' = applications
                 /\ (tenant /\ p = 0)
                       => response'.code = 404 /\ applications' = applications
                 /\ (tenant /\ p # 0 /\ properties[p].status # PropertyStatus.ACTIVE)
                       => /\ response'.code = 400
                          /\ response'.detail = "Property is not available for rent"
                          /\ applications' = applications]_vars

\* A tenant's application for an active property has just been created.
C11_Witness ==
    /\ response.op = "create_application" /\ response.code = 200
    /\ Len(applications) > 0
    /\ applications[Len(applications)].status = "pending"

\* C12: after any sequence of operations and for any combination of filters
\* and pagination values, listProperties returns no property whose status is
\* not active.
C12_ListedAreActive ==
    /\ \A q \in ListInputs :
          \A i \in 1..Len(ListedProperties(q)) :
             ListedProperties(q)[i].status = PropertyStatus.ACTIVE
    /\ response.op = "list_properties"
          => \A i \in 1..Len(response.body) :
                response.body[i].status = PropertyStatus.ACTIVE

\* A listing answered while the only property was not active returned nothing.
C12_Witness ==
    /\ response.op = "list_properties" /\ response.body = <<>>
    /\ Len(properties) > 0
    /\ properties[1].status \in {PropertyStatus.RENTED, PropertyStatus.INACTIVE}

\* C13: updateStatus fails with 404 when the property is absent, with 403 when
\* the caller is not the property's owner (whether or not the requested status
\* is valid), and with 400 (invalid status) when the owner passes a status
\* outside {draft, active, rented, inactive}; in every failure the properties
\* are unchanged.
C13_UpdateStatusFailures ==
    [][response'.op = "update_property_status" =>
       \A c \in Callers, property_id \in PropertyIdInputs, status \in StatusInputs :
          update_property_status(c, property_id, status)
          => LET p == FindOne(properties, [id |-> property_id])
                 absent == p = 0
                 owner == p # 0 /\ properties[p].owner_id = users[c].id
                 valid == status \in {"draft", "active", "rented", "inactive"}
             IN  /\ absent => response'.code = 404
                 /\ (~absent /\ ~owner) => response'.code = 403
                 /\ (owner /\ ~valid)
                       => response'.code = 400 /\ response'.detail = "Invalid status"
                 /\ (owner /\ valid)
                       => response'.code = 200 /\ properties'[p].status = status
                 /\ response'.code # 200 => properties' = properties]_vars

\* The owner's request for a status outside the four was refused and the
\* property kept its status.
C13_Witness ==
    /\ response.op = "update_property_status"
    /\ response.code = 400 /\ response.detail = "Invalid status"
    /\ Len(properties) > 0 /\ properties[1].status \in valid_statuses

\* C14: createProperty fails with 403 and creates nothing unless the caller's
\* role is owner; a property it creates has status draft and owner_id equal to
\* the caller's id.
C14_CreatePropertyByOwnerOnly ==
    [][response'.op = "create_property" =>
       \A c \in Callers, property_data \in PropertyInputs :
          create_property(c, property_data)
          => IF users[c].role # "owner"
                THEN response'.code = 403 /\ properties' = properties
                ELSE /\ response'.code = 200
                     /\ Len(properties') = Len(properties) + 1
                     /\ SubSeq(properties', 1, Len(properties)) = properties
                     /\ properties'[Len(properties')].status = "draft"
                     /\ properties'[Len(properties')].owner_id = users[c].id]_vars

\* An owner's property has just been created as a draft.
C14_Witness ==
    /\ response.op = "create_property" /\ response.code = 200
    /\ Len(properties) > 0
    /\ properties[Len(properties)].status = "draft"
    /\ \E c \in Callers :
          users[c].role = "owner" /\ properties[Len(properties)].owner_id = users[c].id

\* C15: after a successful registration with email e, every later register call
\* with email e fails with HTTP 400 (email already registered) and leaves the
\* users unchanged.
C15_DuplicateEmailRejected ==
    [][response'.op = "register" =>
       \A user_data \in RegisterInputs :
          (register(user_data) /\ \E u \in 1..Len(users) : users[u].email = user_data.email)
          => /\ response'.code = 400
             /\ response'.detail = "Email already registered"
             /\ users' = users]_vars

\* A registration was refused because its email is already stored.
C15_Witness ==
    /\ response.op = "register" /\ response.code = 400
    /\ response.detail = "Email already registered"
    /\ Len(users) > 0

\* C16: register with a password shorter than 6 characters always fails with
\* HTTP 400 and creates no user; with an unused email and a password of 6 or
\* more characters it creates exactly one user.
C16_PasswordLength ==
    [][response'.op = "register" =>
       \A user_data \in RegisterInputs :
          register(user_data)
          => LET unused == \A u \in 1..Len(users) : users[u].email # user_data.email
             IN  /\ Len(user_data.password) < 6
                    => /\ response'.code = 400 /\ users' = users
                       /\ unused => response'.detail = "Password must be at least 6 characters"
                 /\ (Len(user_data.password) >= 6 /\ unused)
                    => /\ response'.code = 200
                       /\ Len(users') = Len(users) + 1
                       /\ SubSeq(users', 1, Len(users)) = users
                       /\ users'[Len(users')].email = user_data.email]_vars

\* A user with a password of exactly 6 characters is stored and a
\* registration has just been refused for its short password.
C16_Witness ==
    /\ response.op = "register" /\ response.code = 400
    /\ response.detail = "Password must be at least 6 characters"
    /\ \E u \in 1..Len(users) : users[u].password_hash = get_password_hash("secret")

\* C17: login issues a token pair if and only if a user with the given email
\* exists, the password matches and the user's is_active flag is true; a wrong
\* password or an unknown email fails with "Incorrect email or password", an
\* inactive account with "Inactive user", and the access token issued embeds
\* the user's stored role.
C17_LoginIssuesTokens ==
    [][response'.op = "login" =>
       \A login_data \in LoginInputs :
          login(login_data)
          => LET known == {u \in 1..Len(users) : users[u].email = login_data.email}
                 u == Min(known)
                 matches == known # {}
                            /\ users[u].password_hash = <<"bcrypt", login_data.password>>
                 active == matches /\ users[u].is_active
             IN  /\ response'.code = 200 <=> active
                 /\ ~matches
                       => /\ response'.code = 400
                          /\ response'.detail = "Incorrect email or password"
                 /\ (matches /\ ~active)
                       => response'.code = 400 /\ response'.detail = "Inactive user"
                 /\ active
                       => /\ DOMAIN response'.body
                               = {"access_token", "refresh_token", "token_type"}
                          /\ response'.body.access_token[2].role = users[u].role
                          /\ response'.body.access_token[2].sub = users[u].id
                          /\ response'.body.refresh_token[2].sub = users[u].id
                 /\ UNCHANGED db]_vars

\* The owner has just logged in and holds an access token with the role owner.
C17_Witness ==
    /\ response.op = "login" /\ response.code = 200
    /\ response.body.access_token[2].role = "owner"
    /\ \E u \in 1..Len(users) :
          users[u].role = "owner" /\ response.body.access_token[2].sub = users[u].id

\* C18: listApplications returns to a tenant exactly the applications whose
\* tenant_id is the caller, to an owner exactly the applications whose owner_id
\* is the caller, and all applications only to a caller whose role is admin; a
\* caller with any other role sees no application they are not party to.
C18_ApplicationsVisibleToParties ==
    [][response'.op = "get_applications" =>
       \A c \in Callers :
          get_applications(c)
          => LET me == users[c].id
                 Mine(doc) == doc.tenant_id = me
                 Owned(doc) == doc.owner_id = me
                 seen == response'.body
             IN  /\ users[c].role = "tenant" => seen = SelectSeq(applications, Mine)
                 /\ users[c].role = "owner" => seen = SelectSeq(applications, Owned)
                 /\ users[c].role = "admin" => seen = applications
                 /\ users[c].role \notin {"tenant", "owner", "admin"}
                       => \A i \in 1..Len(seen) :
                             seen[i].tenant_id = me \/ seen[i].owner_id = me]_vars

\* The payments, by position, whose status is completed.
CompletedPayments == {i \in 1..Len(payments) : payments[i].status = "completed"}

RECURSIVE TotalOver(_, _)
TotalOver(S, field) ==
    IF S = {} THEN 0
    ELSE LET i == CHOOSE j \in S : TRUE
         IN  payments[i][field] + TotalOver(S \ {i}, field)

\* C19: after any sequence of initializePayment and completePayment calls,
\* getCommissionStats reports totals equal to the sums of total_amount,
\* commission_amount and owner_amount over exactly the payments whose status is
\* completed, and payment_count equal to their number; payments with status
\* initialized or failed contribute nothing.
C19_StatsSumCompleted ==
    response.op = "get_commission_stats"
    => /\ response.code = 200
       /\ response.body.total_payments = TotalOver(CompletedPayments, "total_amount")
       /\ response.body.total_commission_collected
             = TotalOver(CompletedPayments, "commission_amount")
       /\ response.body.total_owner_payments
             = TotalOver(CompletedPayments, "owner_amount")
       /\ response.body.payment_count = Cardinality(CompletedPayments)

\* The statistics count one completed payment while another payment, not
\* completed, is stored.
C19_Witness ==
    /\ response.op = "get_commission_stats"
    /\ response.body.payment_count = 1
    /\ response.body.total_payments > 0
    /\ \E i \in 1..Len(payments) : payments[i].status \in {"initialized", "failed"}

\* C20: getPaymentHistory returns only payments whose user_id is the caller,
\* ordered by created_at newest first, and at most 20 of them: all of the
\* caller's payments when there are at most 20, the 20 newest otherwise.
C20_HistoryNewestTwenty ==
    [][response'.op = "get_payments" =>
       \A c \in Callers :
          get_payments(c)
          => LET me == users[c].id
                 mine == {i \in 1..Len(payments) : payments[i].user_id = me}
                 seen == response'.body
                 Shown(i) == \E k \in 1..Len(seen) : seen[k] = payments[i]
             IN  /\ response'.code = 200
                 /\ \A k \in 1..Len(seen) :
                       seen[k].user_id = me /\ \E i \in mine : seen[k] = payments[i]
                 /\ \A j, k \in 1..Len(seen) :
                       j < k => /\ seen[j].created_at >= seen[k].created_at
                                /\ seen[j].id # seen[k].id
                 /\ Len(seen) = IF Cardinality(mine) > 20 THEN 20 ELSE Cardinality(mine)
                 /\ \A i \in mine :
                       ~Shown(i) => \A k \in 1..Len(seen) :
                                       seen[k].created_at >= payments[i].created_at]_vars

\* The tenant, with 22 payments stored, was shown 20 of them, the newest first.
C20_Witness ==
    /\ response.op = "get_payments"
    /\ Len(payments) = 22
    /\ Len(response.body) = 20
    /\ response.body[1].created_at = 22 /\ response.body[20].created_at = 3

----------------------------------------------------------------------------
(* Properties of the stored documents *)

\* C21, as stated: for every payment, commission_amount equals total_amount
\* multiplied by the commission_rate value stored in the same row.
C21_CommissionIsTotalTimesRate ==
    \A i \in 1..Len(payments) :
        payments[i].commission_amount = payments[i].total_amount * payments[i].commission_rate

\* C21, amended: the row stores the rate as a percentage (40), and for every
\* payment commission_amount equals total_amount multiplied by the stored
\* commission_rate and divided by 100.
C21_CommissionIsRatePercent ==
    \A i \in 1..Len(payments) :
        /\ payments[i].commission_rate = 40
        /\ payments[i].commission_amount * 100
              = payments[i].total_amount * payments[i].commission_rate

\* A payment of the property's price, 7000, stores the rate 40 and the
\* commission 2800.
C21_Witness ==
    \E i \in 1..Len(payments) :
        /\ payments[i].total_amount = 7000
        /\ payments[i].commission_rate = 40
        /\ payments[i].commission_amount = 2800

\* C22: runKYC on an application, called by the application's tenant, yields a
\* score in [60,95], persists it as kyc_score, and sets the application's
\* status to approved if and only if the score is at least 75, otherwise to
\* rejected; any other caller gets 403 and the applications are unchanged.
C22_KycScoreDecidesStatus ==
    [][response'.op = "run_kyc" =>
       \A c \in Callers, application_id \in ApplicationIdInputs, score \in KycScores :
          run_kyc(c, application_id, score)
          => LET a == FindOne(applications, [id |-> application_id])
             IN  a # 0
                 => IF applications[a].tenant_id = users[c].id
                    THEN /\ response'.code = 200
                         /\ score \in 60..95
                         /\ applications'[a].kyc_score = {score}
                         /\ applications'[a].status = "approved" <=> score >= 75
                         /\ applications'[a].status = "rejected" <=> score < 75
                         /\ \A i \in 1..Len(applications) :
                               i # a => applications'[i] = applications[i]
                    ELSE /\ response'.code = 403
                         /\ applications' = applications]_vars

\* KYC has just approved an application with the score 75.
C22_Witness ==
    /\ response.op = "run_kyc" /\ response.code = 200
    /\ \E i \in 1..Len(applications) :
          applications[i].kyc_score = {75} /\ applications[i].status = "approved"

----------------------------------------------------------------------------
(* Properties of the notification service *)

\* C23: an exception raised inside send_email or send_sms while the message is
\* built or sent never reaches the caller: the method returns False; it
\* returns True when the delivery, real or mock, succeeds.
C23_DeliveryFailureReturnsFalse ==
    [][/\ response'.op = "send_email" =>
          \A text_content \in TextInputs, fault \in EmailFaults \cup {NoFault} :
             send_email("tenant@x", "subject", text_content, fault)
             => /\ response'.detail = ""
                /\ response'.body = ~Raises(fault, EmailCalls(notifier))
                /\ response'.body = TRUE
                      <=> Len(notifier'.delivered) = Len(notifier.delivered) + 1
       /\ response'.op = "send_sms" =>
          \A fault \in SmsFaults \cup {NoFault} :
             send_sms("+905550000000", "message", fault)
             => /\ response'.detail = ""
                /\ response'.body = ~Raises(fault, SmsCalls(notifier))
                /\ response'.body = TRUE
                      <=> Len(notifier'.delivered) = Len(notifier.delivered) + 1]_vars

\* A send returned False after an exception, with an earlier message delivered
\* over SMTP.
C23_Witness ==
    /\ response.op \in {"send_email", "send_sms"}
    /\ response.body = FALSE /\ response.logged # ""
    /\ \E i \in 1..Len(notifier.delivered) : notifier.delivered[i].via = "smtp"

----------------------------------------------------------------------------
(* Properties of the stored users and properties *)

\* C24: in every reachable state every stored user's role is one of owner,
\* tenant or admin: register never stores a user with any other role.
C24_RolesAreKnown ==
    \A u \in 1..Len(users) : users[u].role \in {"owner", "tenant", "admin"}

\* C25: in every reachable state every stored property has price > 0 and
\* deposit >= 0: createProperty never stores a property that violates either
\* bound.
C25_PriceAndDepositBounds ==
    \A i \in 1..Len(properties) : properties[i].price > 0 /\ properties[i].deposit >= 0

----------------------------------------------------------------------------
(* Properties of the application life cycle *)

TerminalStatuses == {"rejected", "cancelled", "payment_completed"}

C28_BookingIffApprovedAndPaying ==
    /\ \A b \in 1..Len(bookings) :
          /\ ApplicationOf(bookings[b]) # 0
          /\ applications[ApplicationOf(bookings[b])].status
                \in {"approved", "payment_completed"}
          /\ \E p \in 1..Len(payments) : payments[p].booking_id = bookings[b].id
    /\ \A p \in 1..Len(payments) : BookingOf(payments[p]) # 0

----------------------------------------------------------------------------
(* Properties of requests in flight *)

\* C29: two completePayment(token, "success") calls on the same token, run one
\* after the other or interleaved at their individual database reads and
\* writes, leave the payment, application and property statuses as a single
\* such call leaves them: the payment the token resolves to completed, the
\* other payments initialized, the booking's property rented and the
\* application as it was; with a token of no payment, nothing changed.
C29_TwoCompletionsAsOne ==
    \A i, j \in 1..MaxRequests :
       (/\ i # j
        /\ requests[i].pc = "done" /\ requests[i].status = "success"
        /\ requests[j].pc = "done" /\ requests[j].status = "success"
        /\ requests[i].payment_token = requests[j].payment_token
        /\ \A k \in 1..MaxRequests \ {i, j} : requests[k] = Idle)
       => LET found == PaymentsWithToken(requests[i].payment_token)
          IN  /\ \A p \in 1..Len(payments) :
                    payments[p].status =
                       IF found # {} /\ p = Min(found) THEN "completed" ELSE "initialized"
              /\ properties[1].status =
                    IF found # {} THEN PropertyStatus.RENTED ELSE PropertyStatus.ACTIVE
              /\ applications[1].status = HistoryApplications[1].status

\* Both calls on the first payment's token have returned and the payment is
\* completed.
C29_Witness ==
    /\ \E i, j \in 1..MaxRequests :
          /\ i # j
          /\ requests[i].pc = "done" /\ requests[i].status = "success"
          /\ requests[j].pc = "done" /\ requests[j].status = "success"
          /\ requests[i].payment_token = PaymentToken(Uuid("booking", 1), 1)
          /\ requests[j].payment_token = PaymentToken(Uuid("booking", 1), 1)
          /\ \A k \in 1..MaxRequests \ {i, j} : requests[k] = Idle
    /\ Len(payments) >= 2 /\ payments[1].status = "completed"
    /\ properties[1].status = PropertyStatus.RENTED

\* C30: in every reachable state, including those reached when two register
\* requests with the same email interleave between the existence check and
\* the insert, no two stored users have the same email.
C30_EmailsUnique ==
    \A u, v \in 1..Len(users) : u # v => users[u].email # users[v].email

\* C31: the owner of a property can move it with updateStatus from any of the
\* four statuses draft, active, rented, inactive to any of the four, including
\* out of rented after a payment completed: no transition between two valid
\* statuses is rejected, the call answers 200 and the property carries the
\* requested status afterwards.
C31_OwnerMovesAmongFour ==
    [][response'.op = "update_property_status" =>
       \A c \in Callers, property_id \in PropertyIdInputs,
          status \in {"draft", "active", "rented", "inactive"} :
          update_property_status(c, property_id, status)
          => LET p == FindOne(properties, [id |-> property_id])
             IN  (/\ p # 0
                  /\ properties[p].owner_id = users[c].id
                  /\ properties[p].status \in {"draft", "active", "rented", "inactive"})
                 => /\ response'.code = 200
                    /\ properties' = [properties EXCEPT ![p].status = status]]_vars

\* The owner took the property out of rented after a payment for a booking on
\* it completed: it is a draft again, which only updateStatus can produce.
C31_Witness ==
    /\ response.op = "update_property_status" /\ response.code = 200
    /\ \E p \in 1..Len(properties), b \in 1..Len(bookings), m \in 1..Len(payments) :
          /\ bookings[b].property_id = properties[p].id
          /\ payments[m].booking_id = bookings[b].id
          /\ payments[m].status = "completed"
          /\ properties[p].status = PropertyStatus.DRAFT

\* A property satisfies a supplied equality filter when it carries the
\* supplied value; a filter that was not supplied restricts nothing.
SatisfiesSupplied(doc, q) ==
    /\ q.city # None => doc.city = TheValue(q.city)
    /\ q.district # None => doc.district = TheValue(q.district)
    /\ q.property_type # None => doc.property_type = TheValue(q.property_type)
    /\ q.rooms # None => doc.rooms = TheValue(q.rooms)
    /\ q.furnished # None => doc.furnished = TheValue(q.furnished)
    /\ q.min_price # None => TheValue(q.min_price) <= doc.price
    /\ q.max_price # None => doc.price <= TheValue(q.max_price)

\* C32: listProperties returns, before pagination (skip, then limit), exactly
\* the active properties that satisfy every supplied filter at once: equality
\* on city, district, property type, rooms and furnished flag, and
\* min_price <= price <= max_price with both bounds inclusive; an omitted
\* filter restricts nothing, and a bound of 0 is applied as a bound.
C32_ListingAppliesEveryFilter ==
    [][response'.op = "list_properties" =>
       \A q \in ListInputs :
          list_properties(q)
          => LET Wanted(doc) == doc.status = PropertyStatus.ACTIVE /\ SatisfiesSupplied(doc, q)
             IN  response'.body = Limit(Skip(SelectSeq(properties, Wanted), q.skip), q.limit)]_vars

\* A string filter counts when it was supplied and is not the empty string.
NonEmpty(o) == o # None /\ TheValue(o) # ""

SatisfiesNonEmpty(doc, q) ==
    /\ NonEmpty(q.city) => doc.city = TheValue(q.city)
    /\ NonEmpty(q.district) => doc.district = TheValue(q.district)
    /\ NonEmpty(q.property_type) => doc.property_type = TheValue(q.property_type)
    /\ NonEmpty(q.rooms) => doc.rooms = TheValue(q.rooms)
    /\ q.furnished # None => doc.furnished = TheValue(q.furnished)
    /\ q.min_price # None => TheValue(q.min_price) <= doc.price
    /\ q.max_price # None => doc.price <= TheValue(q.max_price)

\* C32 (amended): listProperties returns, before pagination, exactly the
\* active properties that satisfy every supplied filter at once, where a city,
\* district, property type or rooms filter counts only when it is a non-empty
\* string; the furnished flag and both price bounds (inclusive, 0 included)
\* count whenever they are supplied.
C32_ListingAppliesNonEmptyFilters ==
    [][response'.op = "list_properties" =>
       \A q \in ListInputs :
          list_properties(q)
          => LET Wanted(doc) == doc.status = PropertyStatus.ACTIVE /\ SatisfiesNonEmpty(doc, q)
             IN  response'.body = Limit(Skip(SelectSeq(properties, Wanted), q.skip), q.limit)]_vars

\* A listing answered with the one active property there is.
C32_Witness ==
    /\ response.op = "list_properties"
    /\ Len(response.body) = 1
    /\ \E p \in 1..Len(properties) :
          properties[p].status = PropertyStatus.ACTIVE /\ response.body[1] = properties[p]

\* C33: once a Payment's status is completed it stays completed (no later
\* completePayment with the same token and a non-success status makes it
\* failed), and a Payment's status only ever moves from initialized to
\* completed or from initialized to failed.
C33_PaymentStatusMovesOnce ==
    [][\A p \in 1..Len(payments) :
          payments'[p].status # payments[p].status
          => /\ payments[p].status = "initialized"
             /\ payments'[p].status \in {"completed", "failed"}]_vars

\* C34: for any booking, at most one Payment is completed, whatever the number
\* and order of initializePayment and completePayment calls for that booking.
C34_OneCompletedPaymentPerBooking ==
    \A p1, p2 \in 1..Len(payments) :
       (/\ payments[p1].booking_id = payments[p2].booking_id
        /\ payments[p1].status = "completed"
        /\ payments[p2].status = "completed")
       => p1 = p2

\* C35: in every reachable state, a Payment has completed_at set if and only
\* if its status is completed.
C35_CompletedAtIffCompleted ==
    \A p \in 1..Len(payments) :
       payments[p].completed_at # None <=> payments[p].status = "completed"

\* C36: after completePayment(token, "success") has returned for a booking on
\* property P, every createApplication on P fails (with PropertyUnavailable
\* for a tenant, the caller createApplication is specified for) and P is
\* absent from listProperties, until P's owner sets P's status back to active
\* with updateStatus. Step by step: the completion leaves P rented; P becomes
\* active again only in an updateStatus step of its owner asking for active;
\* and as long as P is not active no application for it is created and no
\* listing shows it.
C36_UnavailableUntilOwnerReactivates ==
    [][\A p \in 1..Len(properties) :
          /\ response'.op = "complete_payment"
                => \A i \in 1..Len(payments) :
                      (/\ complete_payment(payments[i].payment_token, "success")
                       /\ BookingOf(payments[i]) # 0
                       /\ PropertyOf(bookings[BookingOf(payments[i])]) = p)
                      => properties'[p].status = PropertyStatus.RENTED
          /\ (/\ properties[p].status # PropertyStatus.ACTIVE
              /\ properties'[p].status = PropertyStatus.ACTIVE)
                => \E c \in Callers :
                      /\ users[c].id = properties[p].owner_id
                      /\ update_property_status(c, properties[p].id, PropertyStatus.ACTIVE)
          /\ properties[p].status # PropertyStatus.ACTIVE
                => /\ response'.op = "create_application"
                         => \A c \in Callers :
                               create_application(c, properties[p].id)
                               => /\ response'.code # 200
                                  /\ applications' = applications
                                  /\ users[c].role = UserRole.TENANT
                                        => /\ response'.code = 400
                                           /\ response'.detail =
                                                 "Property is not available for rent"
                   /\ response'.op = "list_properties"
                         => \A k \in 1..Len(response'.body) :
                               response'.body[k].id # properties[p].id]_vars

\* A tenant's application for a property that a completed payment rented was
\* refused as unavailable.
C36_Witness ==
    /\ response.op = "create_application" /\ response.code = 400
    /\ response.detail = "Property is not available for rent"
    /\ \E p \in 1..Len(properties), b \in 1..Len(bookings), m \in 1..Len(payments) :
          /\ properties[p].status = PropertyStatus.RENTED
          /\ bookings[b].property_id = properties[p].id
          /\ payments[m].booking_id = bookings[b].id
          /\ payments[m].status = "completed"

\* C37: in every reachable state, every Payment's user_id equals the tenant_id
\* of the booking named by its booking_id, so a user's payment history holds
\* only payments for bookings of which that user is the tenant.
C37_PaymentUserIsBookingTenant ==
    /\ \A p \in 1..Len(payments) :
          /\ BookingOf(payments[p]) # 0
          /\ payments[p].user_id = bookings[BookingOf(payments[p])].tenant_id
    /\ response.op = "get_payments"
          => \A k \in 1..Len(response.body) :
                LET b == BookingOf(response.body[k])
                IN  b # 0 /\ bookings[b].tenant_id = response.body[k].user_id

\* The tenant's payment history came back with a payment in it.
C37_Witness ==
    /\ response.op = "get_payments"
    /\ Len(response.body) > 0
    /\ \E b \in 1..Len(bookings) :
          /\ bookings[b].id = response.body[1].booking_id
          /\ bookings[b].tenant_id = response.body[1].user_id

\* C38: in every reachable state, every Application's owner_id equals the
\* owner_id of the property it references: the value copied at creation never
\* diverges from the property's owner under any sequence of operations.
C38_ApplicationOwnerIsPropertyOwner ==
    \A a \in 1..Len(applications) :
       LET p == FindOne(properties, [id |-> applications[a].property_id])
       IN  p # 0 /\ applications[a].owner_id = properties[p].owner_id

\* An application whose property has since left the active status still
\* names the property's owner.
C38_Witness ==
    \E a \in 1..Len(applications), p \in 1..Len(properties) :
       /\ properties[p].id = applications[a].property_id
       /\ properties[p].status # PropertyStatus.ACTIVE
       /\ applications[a].owner_id = properties[p].owner_id

====
